---- MODULE Spec2Model ----
(***************************************************************************)
(* A model of gopro-gps-extractor.py: one run of main(), from the parse of *)
(* the -t timestamp to the removal of the temporary file.  The external    *)
(* tools (ffmpeg, exiftool) are the environment: each call may succeed or  *)
(* raise, and what the metadata reader returns is an input of the run.     *)
(*                                                                         *)
(* Strings the code parses are sequences of one-character strings.  JSON   *)
(* numbers that are not integers are kept in tenths (JFloat(15) is 1.5).   *)
(***************************************************************************)
EXTENDS Integers, Sequences, FiniteSets, TLC

\* Longest -t argument drawn in SpecParse.
MaxLen == 7
\* Most stream values in a metadata document drawn in Spec.
MaxStreams == 2
\* Length of the source video, in seconds.
VideoDuration == 3
\* The t="1" input option of extract_video: the clip's length in seconds.
ClipSeconds == 1

VARIABLES
    timestamp,          \* args.timestamp
    extract,            \* args.extract
    image_file,         \* args.image_file is given
    exifOutput,         \* what the metadata reader will return for the video
    pc,                 \* position in main()
    timestamp_seconds,  \* <<>> until Video.__init__ sets it, then <<n>>
    video,              \* the media file the run reads: "source" or "tmp.mp4"
    f,                  \* the image to tag
    frame,              \* <<>> or <<[media, ss]>>: extract_image's ffmpeg input
    files,              \* files of the run that exist on disk
    documents,          \* documents[0].values(), in iteration order
    i,                  \* index of the next stream value of the for loop
    found_entry,
    data,               \* the directive list
    selected,           \* index of the accepted stream value (0: none)
    imageTags,          \* directives applied to the image by exiftool
    invoked,            \* external processes started, in order
    errors,             \* indexes whose AttributeError went to logger.error
    raised              \* the uncaught exception and where it was raised

vars == <<timestamp, extract, image_file, exifOutput, pc, timestamp_seconds,
          video, f, frame, files, documents, i, found_entry, data, selected,
          imageTags, invoked, errors, raised>>

args == <<timestamp, extract, image_file, exifOutput>>

----------------------------------------------------------------------------
(* Python's str.split(':') and int() on a string.                          *)

DigitChars == {"0", "1", "2", "3", "4", "5", "6", "7", "8", "9"}

DigitVal(c) ==
    CASE c = "0" -> 0 [] c = "1" -> 1 [] c = "2" -> 2 [] c = "3" -> 3
      [] c = "4" -> 4 [] c = "5" -> 5 [] c = "6" -> 6 [] c = "7" -> 7
      [] c = "8" -> 8 [] c = "9" -> 9

\* timestamp.split(':'): always at least one segment, empty segments kept.
RECURSIVE Split(_)
Split(s) ==
    IF \A k \in 1..Len(s) : s[k] # ":"
    THEN <<s>>
    ELSE LET k == CHOOSE k \in 1..Len(s) :
                     s[k] = ":" /\ \A j \in 1..(k-1) : s[j] # ":"
         IN  <<SubSeq(s, 1, k-1)>> \o Split(SubSeq(s, k+1, Len(s)))

IsDigits(s) == Len(s) > 0 /\ \A k \in 1..Len(s) : s[k] \in DigitChars

RECURSIVE DigitsVal(_)
DigitsVal(s) ==
    IF s = <<>> THEN 0
    ELSE DigitsVal(SubSeq(s, 1, Len(s)-1)) * 10 + DigitVal(s[Len(s)])

Ok(n) == [exc |-> "none", val |-> n]
Exc(e) == [exc |-> e, val |-> 0]

\* int(s) for a str: an optional sign, then decimal digits; anything else
\* is a ValueError.  (Surrounding blanks and '_' between digits, which
\* int() also takes, are not in the alphabets used here.)
IntOfStr(s) ==
    IF s # <<>> /\ s[1] \in {"-", "+"}
    THEN IF IsDigits(Tail(s))
         THEN Ok(IF s[1] = "-" THEN 0 - DigitsVal(Tail(s)) ELSE DigitsVal(Tail(s)))
         ELSE Exc("ValueError")
    ELSE IF IsDigits(s) THEN Ok(DigitsVal(s)) ELSE Exc("ValueError")

\* Video.__init__: t = timestamp.split(':'), then int(t[0]), int(t[1]),
\* int(t[2]) in that order; a missing t[k] is an IndexError.
VideoInit(ts) ==
    LET t == Split(ts)
        h == IntOfStr(t[1])
    IN  IF h.exc # "none" THEN Exc(h.exc)
        ELSE IF Len(t) < 2 THEN Exc("IndexError")
        ELSE LET m == IntOfStr(t[2])
             IN  IF m.exc # "none" THEN Exc(m.exc)
                 ELSE IF Len(t) < 3 THEN Exc("IndexError")
                 ELSE LET sec == IntOfStr(t[3])
                      IN  IF sec.exc # "none" THEN Exc(sec.exc)
                          ELSE Ok(h.val * 60 * 60 + m.val * 60 + sec.val)

----------------------------------------------------------------------------
(* The metadata document: json.loads(metadata)[0].values().                *)

\* A JSON value under 'TimeStamp'.  kind: "absent" (no such key, or null:
\* .get gives None either way), "int", "float" (num in tenths), "str",
\* "list".
JAbsent == [kind |-> "absent", num |-> 0, str |-> <<>>]
JInt(n) == [kind |-> "int", num |-> n, str |-> <<>>]
JFloat(tenths) == [kind |-> "float", num |-> tenths, str |-> <<>>]
JStr(s) == [kind |-> "str", num |-> 0, str |-> s]
JList == [kind |-> "list", num |-> 0, str |-> <<>>]

\* A JSON value under a GPS or DeviceName key, with the text Python's
\* format() gives it.
FAbsent == [kind |-> "absent", text |-> ""]
FNum(repr) == [kind |-> "num", text |-> repr]
FStr(s) == [kind |-> "str", text |-> s]

\* int(x) for a float: truncation toward zero.
TruncTenths(t) == IF t >= 0 THEN t \div 10 ELSE 0 - ((0 - t) \div 10)

\* int(value.get('TimeStamp')): None and a list are a TypeError, a str
\* that is no integer literal a ValueError.
PyInt(v) ==
    CASE v.kind = "absent" -> Exc("TypeError")
      [] v.kind = "list"   -> Exc("TypeError")
      [] v.kind = "int"    -> Ok(v.num)
      [] v.kind = "float"  -> Ok(TruncTenths(v.num))
      [] v.kind = "str"    -> IntOfStr(v.str)

\* f'{value.get(key)}': a missing key formats as None.
PyFormat(v) == IF v.kind = "absent" THEN "None" ELSE v.text

\* A stream value: kind "str" (a plain string), "dict" (a bundle) or
\* "list" (neither: it has no .get).
StreamValue(kind, ts, lat, lon, alt, dev) ==
    [kind |-> kind, TimeStamp |-> ts, GPSLatitude |-> lat,
     GPSLongitude |-> lon, GPSAltitude |-> alt, DeviceName |-> dev]

PlainString == StreamValue("str", JAbsent, FAbsent, FAbsent, FAbsent, FAbsent)
NotADict == StreamValue("list", JAbsent, FAbsent, FAbsent, FAbsent, FAbsent)

\* A faulty acceptance test: any time value from the target on.
MatchesAtLeast(ext, t, target) == ext \/ t >= target

\* The acceptance test of line 146.
Matches(ext, t, target) == ext \/ t = target

\* One pass of the for loop's body over `value`:
\*   "continue"  the isinstance(value, str) branch
\*   "logged"    AttributeError, caught and logged
\*   "pass"      TypeError, caught and ignored
\*   "raise"     ValueError, caught by neither except clause
\*   "break"     accepted
\*   "next"      a timestamp that is not accepted
ScanValue(value, ext, target) ==
    IF value.kind = "str" THEN "continue"
    ELSE IF value.kind # "dict" THEN "logged"
    ELSE LET t == PyInt(value.TimeStamp)
         IN  IF t.exc = "TypeError" THEN "pass"
             ELSE IF t.exc # "none" THEN "raise"
             ELSE IF Matches(ext, t.val, target) THEN "break"
             ELSE "next"

Directive(field, v) == <<"-" \o field \o "*=" \o PyFormat(v)>>
\* A faulty list: no directive for a field the bundle lacks.
DirectiveIfPresent(field, v) ==
    IF v.kind = "absent" THEN <<>> ELSE Directive(field, v)

BuildDataIfPresent(value) ==
    DirectiveIfPresent("GPSLatitude", value.GPSLatitude)
    \o DirectiveIfPresent("GPSLongitude", value.GPSLongitude)
    \o DirectiveIfPresent("GPSAltitude", value.GPSAltitude)
    \o DirectiveIfPresent("model", value.DeviceName)
    \o <<"-make*=GoPro">>

\* The list of lines 148-154.
BuildData(value) ==
    Directive("GPSLatitude", value.GPSLatitude)
    \o Directive("GPSLongitude", value.GPSLongitude)
    \o Directive("GPSAltitude", value.GPSAltitude)
    \o Directive("model", value.DeviceName)
    \o <<"-make*=GoPro">>

----------------------------------------------------------------------------
(* Inputs.                                                                 *)

Chars == {"0", ":", "x", "-"}
SeqsUpTo(S, n) == UNION {[1..k -> S] : k \in 0..n}

\* -t arguments of SpecParse: every string over Chars up to MaxLen.
AllTimestamps == SeqsUpTo(Chars, MaxLen)

\* -t arguments of Spec: 00:00:01, 0:0:0 and the two-segment 1:2.
ScanTimestamps ==
    { <<"0", "0", ":", "0", "0", ":", "0", "1">>,
      <<"0", ":", "0", ":", "0">>,
      <<"1", ":", "2">> }

TimeValues ==
    { JAbsent, JInt(1), JFloat(5), JFloat(15), JFloat(-5),
      JStr(<<"1">>), JStr(<<"x">>) }

FieldProfiles ==
    { <<FNum("51.5"), FNum("-0.1"), FNum("10"), FStr("Hero9")>>,
      <<FNum("51.5"), FNum("-0.1"), FAbsent, FAbsent>>,
      <<FAbsent, FAbsent, FNum("10"), FStr("Hero9")>> }

Bundles ==
    { StreamValue("dict", ts, p[1], p[2], p[3], p[4]) :
        ts \in TimeValues, p \in FieldProfiles }

StreamValues == {PlainString, NotADict} \cup Bundles

Documents == SeqsUpTo(StreamValues, MaxStreams)

FullBundle(ts) ==
    StreamValue("dict", ts, FNum("51.5"), FNum("-0.1"), FNum("10"), FStr("Hero9"))

\* The documents of SpecParse.
ParseDocuments ==
    { <<PlainString, FullBundle(JInt(0))>>,
      <<NotADict, FullBundle(JAbsent), FullBundle(JStr(<<"x">>))>>,
      <<PlainString, FullBundle(JFloat(15))>> }

----------------------------------------------------------------------------
(* The run.                                                                *)

NotRaised == [exc |-> "none", at |-> "none"]

InitRun ==
    /\ pc = "init"
    /\ timestamp_seconds = <<>>
    /\ video = ""
    /\ f = ""
    /\ frame = <<>>
    /\ files = {}
    /\ documents = <<>>
    /\ i = 0
    /\ found_entry = FALSE
    /\ data = <<>>
    /\ selected = 0
    /\ imageTags = <<>>
    /\ invoked = <<>>
    /\ errors = <<>>
    /\ raised = NotRaised

Init ==
    /\ timestamp \in ScanTimestamps
    /\ extract \in BOOLEAN
    /\ image_file \in BOOLEAN
    /\ exifOutput \in Documents
    /\ InitRun

InitParse ==
    /\ timestamp \in AllTimestamps
    /\ extract \in BOOLEAN
    /\ image_file \in BOOLEAN
    /\ exifOutput \in ParseDocuments
    /\ InitRun

TS == timestamp_seconds[1]

\* An uncaught exception ends the process; the NamedTemporaryFile object
\* is finalised on the way out, which removes its file.
Abort(e) ==
    /\ raised' = [exc |-> e, at |-> pc]
    /\ pc' = "aborted"
    /\ files' = files \ {"tmp"}

\* The media a file holds: where it starts in the source video and how
\* long it is.  The clip is ClipSeconds of the source from timestamp_seconds
\* on, as far as the source goes.
ClipLen(start) ==
    IF start < 0 \/ start >= VideoDuration THEN 0
    ELSE IF start + ClipSeconds <= VideoDuration THEN ClipSeconds
    ELSE VideoDuration - start

Media(file, start) ==
    IF file = "tmp.mp4"
    THEN [start |-> start, len |-> ClipLen(start)]
    ELSE [start |-> 0, len |-> VideoDuration]

\* A faulty construction: the parse failure is swallowed.
ConstructLenient ==
    /\ pc = "init"
    /\ LET r == VideoInit(timestamp)
       IN  /\ timestamp_seconds' = <<r.val>>
           /\ pc' = "select_video"
           /\ UNCHANGED <<raised, files>>
    /\ UNCHANGED <<args, video, f, frame, documents, i, found_entry, data,
                   selected, imageTags, invoked, errors>>

\* obj = Video(args.video_file, args.timestamp)
Construct ==
    /\ pc = "init"
    /\ LET r == VideoInit(timestamp)
       IN  IF r.exc # "none"
           THEN Abort(r.exc) /\ UNCHANGED timestamp_seconds
           ELSE /\ timestamp_seconds' = <<r.val>>
                /\ pc' = "select_video"
                /\ UNCHANGED <<raised, files>>
    /\ UNCHANGED <<args, video, f, frame, documents, i, found_entry, data,
                   selected, imageTags, invoked, errors>>

\* if args.extract: obj.extract_video(); video = obj.temp_video_file_name
ExtractVideo ==
    /\ pc = "select_video"
    /\ extract
    /\ invoked' = Append(invoked, "ffmpeg_clip")
    /\ \E ok \in BOOLEAN :
         IF ok
         THEN /\ files' = files \cup {"tmp", "tmp.mp4"}
              /\ video' = "tmp.mp4"
              /\ pc' = "select_image"
              /\ UNCHANGED raised
         ELSE Abort("FFmpegError") /\ UNCHANGED video
    /\ UNCHANGED <<args, timestamp_seconds, f, frame, documents, i,
                   found_entry, data, selected, imageTags, errors>>

\* else: video = args.video_file
UseSourceVideo ==
    /\ pc = "select_video"
    /\ ~extract
    /\ video' = "source"
    /\ pc' = "select_image"
    /\ UNCHANGED <<args, timestamp_seconds, f, frame, files, documents, i,
                   found_entry, data, selected, imageTags, invoked, errors,
                   raised>>

\* if args.image_file: f = args.image_file
UseImageFile ==
    /\ pc = "select_image"
    /\ image_file
    /\ f' = "image_file"
    /\ pc' = "read_metadata"
    /\ UNCHANGED <<args, timestamp_seconds, video, frame, files, documents, i,
                   found_entry, data, selected, imageTags, invoked, errors,
                   raised>>

\* else: obj.extract_image(video); f = obj.image_output_name
ExtractImage ==
    /\ pc = "select_image"
    /\ ~image_file
    /\ invoked' = Append(invoked, "ffmpeg_frame")
    /\ frame' = <<[media |-> video, ss |-> TS]>>
    /\ \E ok \in BOOLEAN :
         IF ok
         THEN /\ files' = files \cup {"frame.jpg"}
              /\ f' = "frame.jpg"
              /\ pc' = "read_metadata"
              /\ UNCHANGED raised
         ELSE Abort("FFmpegError") /\ UNCHANGED f
    /\ UNCHANGED <<args, timestamp_seconds, video, documents, i, found_entry,
                   data, selected, imageTags, errors>>

\* metadata = et.execute('-j', '-ee', ..., video); documents = json.loads(..)
ReadMetadata ==
    /\ pc = "read_metadata"
    /\ invoked' = Append(invoked, "exiftool_read")
    /\ \E ok \in BOOLEAN :
         IF ok
         THEN /\ documents' = exifOutput
              /\ i' = 1
              /\ pc' = "scan"
              /\ UNCHANGED <<raised, files>>
         ELSE Abort("ExifToolError") /\ UNCHANGED <<documents, i>>
    /\ UNCHANGED <<args, timestamp_seconds, video, f, frame, found_entry,
                   data, selected, imageTags, errors>>

\* One iteration of `for value in documents[0].values()` that goes on to
\* the next value.
ScanSkip ==
    /\ pc = "scan"
    /\ i <= Len(documents)
    /\ LET o == ScanValue(documents[i], extract, TS)
       IN  /\ o \in {"continue", "logged", "pass", "next"}
           /\ errors' = IF o = "logged" THEN Append(errors, i) ELSE errors
    /\ i' = i + 1
    /\ UNCHANGED <<args, pc, timestamp_seconds, video, f, frame, files,
                   documents, found_entry, data, selected, imageTags, invoked,
                   raised>>

\* The iteration that accepts its value and breaks.
ScanAccept ==
    /\ pc = "scan"
    /\ i <= Len(documents)
    /\ ScanValue(documents[i], extract, TS) = "break"
    /\ found_entry' = TRUE
    /\ data' = BuildData(documents[i])
    /\ selected' = i
    /\ pc' = "decide"
    /\ UNCHANGED <<args, timestamp_seconds, video, f, frame, files, documents,
                   i, imageTags, invoked, errors, raised>>

\* The iteration whose exception no except clause catches.
ScanRaise ==
    /\ pc = "scan"
    /\ i <= Len(documents)
    /\ ScanValue(documents[i], extract, TS) = "raise"
    /\ Abort(PyInt(documents[i].TimeStamp).exc)
    /\ UNCHANGED <<args, timestamp_seconds, video, f, frame, documents, i,
                   found_entry, data, selected, imageTags, invoked, errors>>

\* The loop runs out of values.
ScanExhausted ==
    /\ pc = "scan"
    /\ i > Len(documents)
    /\ pc' = "decide"
    /\ UNCHANGED <<args, timestamp_seconds, video, f, frame, files, documents,
                   i, found_entry, data, selected, imageTags, invoked, errors,
                   raised>>

\* update_file(f, data): exiftool applies each directive to the image.
WriteTags ==
    /\ invoked' = Append(invoked, "exiftool_write")
    /\ \E ok \in BOOLEAN :
         IF ok
         THEN /\ imageTags' = data
              /\ pc' = "cleanup"
              /\ UNCHANGED <<raised, files>>
         ELSE Abort("ExifToolError") /\ UNCHANGED imageTags
    /\ UNCHANGED <<args, timestamp_seconds, video, f, frame, documents, i,
                   found_entry, data, selected, errors>>

\* A faulty branch: the writer runs whatever found_entry is.
UpdateFileAlways ==
    /\ pc = "decide"
    /\ WriteTags

\* if found_entry: obj.update_file(f, data)
UpdateFile ==
    /\ pc = "decide"
    /\ found_entry
    /\ WriteTags

\* else: logger.info("No metadata found ...")
NoMetadata ==
    /\ pc = "decide"
    /\ ~found_entry
    /\ pc' = "cleanup"
    /\ UNCHANGED <<args, timestamp_seconds, video, f, frame, files, documents,
                   i, found_entry, data, selected, imageTags, invoked, errors,
                   raised>>

\* if args.extract: obj.temp_video_file.close()
\* close() removes the NamedTemporaryFile's own file, not the file
\* temp_video_file_name that ffmpeg wrote beside it.
Cleanup ==
    /\ pc = "cleanup"
    /\ files' = IF extract THEN files \ {"tmp"} ELSE files
    /\ pc' = "done"
    /\ UNCHANGED <<args, timestamp_seconds, video, f, frame, documents, i,
                   found_entry, data, selected, imageTags, invoked, errors,
                   raised>>

Next ==
    \/ Construct
    \/ ExtractVideo
    \/ UseSourceVideo
    \/ UseImageFile
    \/ ExtractImage
    \/ ReadMetadata
    \/ ScanSkip
    \/ ScanAccept
    \/ ScanRaise
    \/ ScanExhausted
    \/ UpdateFile
    \/ NoMetadata
    \/ Cleanup

Spec == Init /\ [][Next]_vars

SpecParse == InitParse /\ [][Next]_vars

----------------------------------------------------------------------------
(* Properties.                                                             *)

\* The for loop is over: it ran out, broke, or raised.
ScanEnded ==
    \/ pc \in {"decide", "cleanup", "done"}
    \/ pc = "aborted" /\ raised.at \in {"scan", "decide"}

MinOf(S) == CHOOSE m \in S : \A n \in S : m <= n

\* The bundles of a document whose time value reads as an integer.
Candidates(doc) ==
    {k \in 1..Len(doc) :
        doc[k].kind = "dict" /\ PyInt(doc[k].TimeStamp).exc = "none"}

\* The candidates whose time value, read as an integer, is the target.
Matching(doc, target) ==
    {k \in Candidates(doc) : PyInt(doc[k].TimeStamp).val = target}

IsIntegerSegment(s) ==
    \/ IsDigits(s)
    \/ Len(s) > 1 /\ s[1] \in {"-", "+"} /\ IsDigits(Tail(s))

\* Exactly three colon-separated integer segments.
WellFormedTimestamp(ts) ==
    LET t == Split(ts)
    IN  Len(t) = 3 /\ \A k \in 1..3 : IsIntegerSegment(t[k])

FieldTexts == {"None", "51.5", "-0.1", "10", "Hero9"}

\* C1: without -e, when the loop is over the accepted bundle is the first
\* one in iteration order whose time value equals timestamp_seconds, whatever
\* precedes it, and nothing is accepted when no bundle's time value does.
C1_FirstExactMatchSelected ==
    (~extract /\ ScanEnded) =>
        LET M == Matching(documents, TS)
        IN  IF M = {} THEN ~found_entry
            ELSE found_entry /\ selected = MinOf(M)

\* C2: a stream value whose time value is absent or does not read as an
\* integer is skipped: it never ends the run inside the loop, and a bundle
\* the loop would accept elsewhere in the document is still accepted.
C2_UnreadableTimeSkipped ==
    /\ ~(pc = "aborted" /\ raised.at = "scan")
    /\ (/\ ScanEnded
        /\ \E k \in Candidates(documents) :
              extract \/ k \in Matching(documents, TS))
       => found_entry

\* C3: with -e, when the loop is over the accepted bundle is the first
\* bundle of the document that can be scanned, whatever its time value and
\* whatever timestamp_seconds is.
C3_AnyModeFirstBundleSelected ==
    (extract /\ ScanEnded) =>
        LET B == Candidates(documents)
        IN  IF B = {} THEN ~found_entry
            ELSE found_entry /\ selected = MinOf(B)

\* C4: a timestamp that does not split into exactly three integer segments
\* makes Video.__init__ raise, and timestamp_seconds is never set.
C4_MalformedTimestampFails ==
    (pc # "init" /\ ~WellFormedTimestamp(timestamp)) =>
        /\ pc = "aborted"
        /\ raised.at = "init"
        /\ timestamp_seconds = <<>>

\* C5: in a run with -e in which extract_video wrote the clip, the clip
\* file temp_video_file_name is gone when the run has ended, normally or by
\* an exception.
C5_ClipRemovedAtExit ==
    (pc \in {"done", "aborted"} /\ extract /\ video = "tmp.mp4") =>
        "tmp.mp4" \notin files

\* C6: once a bundle is accepted, data holds exactly five directives, for
\* GPSLatitude, GPSLongitude, GPSAltitude, model and make in that order,
\* also when the bundle lacks some of the fields, and the last one is the
\* literal -make*=GoPro.
C6_FiveDirectivesInOrder ==
    found_entry =>
        /\ Len(data) = 5
        /\ \E v \in FieldTexts : data[1] = "-GPSLatitude*=" \o v
        /\ \E v \in FieldTexts : data[2] = "-GPSLongitude*=" \o v
        /\ \E v \in FieldTexts : data[3] = "-GPSAltitude*=" \o v
        /\ \E v \in FieldTexts : data[4] = "-model*=" \o v
        /\ data[5] = "-make*=GoPro"

C6_Witness ==
    /\ found_entry
    /\ documents[selected].GPSAltitude.kind = "absent"
    /\ documents[selected].DeviceName.kind = "absent"
    /\ Len(data) = 5

\* C7: as long as no bundle has been accepted the metadata writer has not
\* been started and the image carries no directive; from the test of
\* found_entry a run without an accepted bundle goes to the cleanup and from
\* there to its end, raising nothing and writing nothing.
C7_NotFoundLeavesImageUntouched ==
    [][/\ ~found_entry' =>
            /\ imageTags' = <<>>
            /\ \A k \in 1..Len(invoked') : invoked'[k] # "exiftool_write"
       /\ (pc = "decide" /\ ~found_entry) =>
            /\ pc' = "cleanup"
            /\ UNCHANGED <<raised, imageTags, invoked>>
       /\ (pc = "cleanup" /\ ~found_entry) =>
            /\ pc' = "done"
            /\ UNCHANGED <<raised, imageTags, invoked>>]_vars

C7_Witness ==
    /\ pc = "done"
    /\ ~found_entry
    /\ extract
    /\ \E k \in 1..Len(documents) : documents[k].kind = "dict"
    /\ imageTags = <<>>

\* C8: in a run whose timestamp Video.__init__ cannot parse, no external
\* process (clip extraction, frame extraction, metadata read, metadata
\* write) is ever started.
C8_NoProcessAfterParseFailure ==
    VideoInit(timestamp).exc # "none" => invoked = <<>>

C8_Witness ==
    /\ pc = "aborted"
    /\ raised.at = "init"
    /\ extract
    /\ ~image_file
    /\ invoked = <<>>

\* The stored time value is the target itself (a numeral of it, for a str).
StoredEquals(v, target) ==
    \/ v.kind = "int" /\ v.num = target
    \/ v.kind = "float" /\ v.num = 10 * target
    \/ v.kind = "str" /\ IntOfStr(v.str) = Ok(target)

\* C9 as stated: without -e, the accepted bundle's stored time value is
\* exactly timestamp_seconds.
C9_ExactMatchOnly ==
    (found_entry /\ ~extract) =>
        StoredEquals(documents[selected].TimeStamp, TS)

\* C9 as amended: without -e, the accepted bundle's stored time value
\* truncated toward zero is timestamp_seconds: the value is the target, or a
\* fraction less than one second away from it on the side away from zero
\* (on either side of a target of 0).
C9_AcceptsTruncatedTime ==
    (found_entry /\ ~extract) =>
        LET v == documents[selected].TimeStamp
        IN  \/ v.kind \in {"int", "str"} /\ StoredEquals(v, TS)
            \/ /\ v.kind = "float"
               /\ IF TS > 0 THEN 10 * TS <= v.num /\ v.num < 10 * TS + 10
                  ELSE IF TS = 0 THEN -10 < v.num /\ v.num < 10
                  ELSE 10 * TS - 10 < v.num /\ v.num <= 10 * TS

C9_Witness ==
    /\ found_entry
    /\ ~extract
    /\ selected = 2
    /\ documents[1].kind = "dict"
    /\ documents[2].TimeStamp = JFloat(15)
    /\ TS = 1

\* C10: when the image is extracted, the frame is the source video's frame
\* at timestamp_seconds: the seek offset, counted from where the file it is
\* applied to starts in the source, is timestamp_seconds, and it lies inside
\* that file.
C10_FrameAtRequestedOffset ==
    (f = "frame.jpg" /\ TS >= 0 /\ TS < VideoDuration) =>
        LET m == Media(frame[1].media, TS)
        IN  /\ m.start + frame[1].ss = TS
            /\ frame[1].ss < m.len

====
